---- MODULE Spec2Model ----
(***************************************************************************)
(* Model of install_ml_dependencies.py: the version gate, the package      *)
(* installer and the orchestrating main() with its two install loops and   *)
(* the final summary.                                                      *)
(***************************************************************************)
EXTENDS Integers, Sequences, FiniteSets, TLC

\* Ranges of sys.version_info explored by the model.
MaxMajor == 4
MaxMinor == 9
MaxMicro == 9

VARIABLES
    version,          \* sys.version_info: [major, minor, micro]
    pc,               \* position of main(): start, required, optional, summary, exited
    idx,              \* position of the iterator of the running for loop (1-based)
    gate,             \* value returned by check_python_version: unknown, pass, fail
    attempts,         \* specifiers install_package has been invoked on, in order
    results,          \* per attempt: what the child did and how install_package ended
    failed_packages,  \* main()'s local list
    stdout,           \* lines printed so far
    exit_code,        \* process exit status, -1 while the process runs
    uncaught          \* TRUE once an exception has propagated out of main()

vars == <<version, pc, idx, gate, attempts, results, failed_packages, stdout,
          exit_code, uncaught>>

----------------------------------------------------------------------------
\* The two hard-coded lists of main().

packages ==
    << "numpy>=1.21.0",
       "scikit-learn>=1.0.0",
       "pandas>=1.3.0",
       "joblib>=1.1.0",
       "pickle5>=0.0.11; python_version<'3.8'" >>

optional_packages ==
    << "tensorflow>=2.8.0",
       "keras>=2.8.0",
       "matplotlib>=3.5.0",
       "seaborn>=0.11.0" >>

\* What subprocess.check_call can do: the child exits 0 (returns), the child
\* exits non-zero (CalledProcessError), or the child cannot be launched
\* (OSError raised by Popen, which is not a CalledProcessError).
ChildOutcomes == {"exit0", "nonzero", "oserror"}

Line(kind, text) == [kind |-> kind, text |-> text]

\* install_package(package) for a given behaviour of the child process.
\* ret is "True" or "False" for a normal return and "raised" when the
\* exception escapes the try statement; out is what it printed.
install_package_swallow(package, child) ==
    IF child = "exit0"
    THEN [ret |-> "True",  out |-> << Line("ok", package) >>]
    ELSE IF child = "nonzero"
    THEN [ret |-> "True",  out |-> << Line("fail", package) >>]
    ELSE [ret |-> "raised", out |-> << >>]

install_package(package, child) ==
    IF child = "exit0"
    THEN [ret |-> "True",  out |-> << Line("ok", package) >>]
    ELSE IF child = "nonzero"
    THEN [ret |-> "False", out |-> << Line("fail", package) >>]
    ELSE [ret |-> "raised", out |-> << >>]

\* check_python_version() on version v: the returned boolean and the line printed.
check_python_version_nomajor(v) ==
    IF v.major < 3 \/ v.minor < 7
    THEN [ret |-> FALSE, out |-> << Line("version_error", "") >>]
    ELSE [ret |-> TRUE,  out |-> << Line("version_ok", "") >>]

check_python_version(v) ==
    IF v.major < 3 \/ (v.major = 3 /\ v.minor < 7)
    THEN [ret |-> FALSE, out |-> << Line("version_error", "") >>]
    ELSE [ret |-> TRUE,  out |-> << Line("version_ok", "") >>]

----------------------------------------------------------------------------
Versions == [major : 0..MaxMajor, minor : 0..MaxMinor, micro : 0..MaxMicro]

Init ==
    /\ version \in Versions
    /\ pc = "start"
    /\ idx = 1
    /\ gate = "unknown"
    /\ attempts = << >>
    /\ results = << >>
    /\ failed_packages = << >>
    /\ stdout = << >>
    /\ exit_code = -1
    /\ uncaught = FALSE

\* main() lines 31-56: header, version gate, sys.exit(1) or entry of the
\* required loop with failed_packages = [].
VersionGate_ignore ==
    /\ pc = "start"
    /\ LET r == check_python_version(version)
           hdr == << Line("title", ""), Line("rule", "") >> \o r.out
       IN /\ gate' = IF r.ret THEN "pass" ELSE "fail"
          /\ pc' = "required"
          /\ exit_code' = exit_code
          /\ stdout' = Append(hdr, Line("installing_required", ""))
    /\ idx' = 1
    /\ failed_packages' = << >>
    /\ UNCHANGED <<version, attempts, results, uncaught>>

VersionGate ==
    /\ pc = "start"
    /\ LET r == check_python_version(version)
           hdr == << Line("title", ""), Line("rule", "") >> \o r.out
       IN /\ gate' = IF r.ret THEN "pass" ELSE "fail"
          /\ IF r.ret
             THEN /\ pc' = "required"
                  /\ exit_code' = exit_code
                  /\ stdout' = Append(hdr, Line("installing_required", ""))
             ELSE /\ pc' = "exited"
                  /\ exit_code' = 1
                  /\ stdout' = hdr
    /\ idx' = 1
    /\ failed_packages' = << >>
    /\ UNCHANGED <<version, attempts, results, uncaught>>

\* One iteration of "for package in packages" (lines 58-60).
RequiredStep_noappend ==
    /\ pc = "required"
    /\ idx <= Len(packages)
    /\ \E child \in ChildOutcomes :
         LET package == packages[idx]
             r == install_package(package, child)
         IN /\ attempts' = Append(attempts, package)
            /\ results' = Append(results, [child |-> child, ret |-> r.ret])
            /\ stdout' = stdout \o r.out
            /\ IF r.ret = "raised"
               THEN /\ uncaught' = TRUE
                    /\ exit_code' = 1
                    /\ pc' = "exited"
                    /\ UNCHANGED <<idx, failed_packages>>
               ELSE /\ failed_packages' = failed_packages
                    /\ idx' = idx + 1
                    /\ UNCHANGED <<pc, exit_code, uncaught>>
    /\ UNCHANGED <<version, gate>>

RequiredStep ==
    /\ pc = "required"
    /\ idx <= Len(packages)
    /\ \E child \in ChildOutcomes :
         LET package == packages[idx]
             r == install_package(package, child)
         IN /\ attempts' = Append(attempts, package)
            /\ results' = Append(results, [child |-> child, ret |-> r.ret])
            /\ stdout' = stdout \o r.out
            /\ IF r.ret = "raised"
               THEN /\ uncaught' = TRUE
                    /\ exit_code' = 1
                    /\ pc' = "exited"
                    /\ UNCHANGED <<idx, failed_packages>>
               ELSE /\ failed_packages' =
                          IF r.ret = "False"
                          THEN Append(failed_packages, package)
                          ELSE failed_packages
                    /\ idx' = idx + 1
                    /\ UNCHANGED <<pc, exit_code, uncaught>>
    /\ UNCHANGED <<version, gate>>

\* The required loop is exhausted; line 62 is printed and the optional loop starts.
RequiredDone ==
    /\ pc = "required"
    /\ idx > Len(packages)
    /\ pc' = "optional"
    /\ idx' = 1
    /\ stdout' = Append(stdout, Line("installing_optional", ""))
    /\ UNCHANGED <<version, gate, attempts, results, failed_packages,
                   exit_code, uncaught>>

\* One iteration of "for package in optional_packages" (lines 63-64):
\* the returned boolean is discarded.
OptionalStep ==
    /\ pc = "optional"
    /\ idx <= Len(optional_packages)
    /\ \E child \in ChildOutcomes :
         LET package == optional_packages[idx]
             r == install_package(package, child)
         IN /\ attempts' = Append(attempts, package)
            /\ results' = Append(results, [child |-> child, ret |-> r.ret])
            /\ stdout' = stdout \o r.out
            /\ IF r.ret = "raised"
               THEN /\ uncaught' = TRUE
                    /\ exit_code' = 1
                    /\ pc' = "exited"
                    /\ UNCHANGED idx
               ELSE /\ idx' = idx + 1
                    /\ UNCHANGED <<pc, exit_code, uncaught>>
    /\ UNCHANGED <<version, gate, failed_packages>>

\* The optional loop is exhausted; the separator of line 66 is printed.
OptionalDone ==
    /\ pc = "optional"
    /\ idx > Len(optional_packages)
    /\ pc' = "summary"
    /\ stdout' = Append(stdout, Line("rule", ""))
    /\ UNCHANGED <<version, idx, gate, attempts, results, failed_packages,
                   exit_code, uncaught>>

\* Lines 68-83: the failure report and sys.exit(1), or the success banner,
\* the verification hint and a normal return (exit status 0).
FailureReport ==
    << Line("failed_header", "") >>
    \o [k \in 1..Len(failed_packages) |-> Line("failed_item", failed_packages[k])]
    \o << Line("guidance", ""), Line("guidance", "") >>

SuccessReport ==
    << Line("success_banner", ""),
       Line("usage", ""),
       Line("artifact", "air_quality_predictor.pkl"),
       Line("artifact", "healthcare_priority_model.h5"),
       Line("artifact", "healthcare_scaler.pkl"),
       Line("verify_hint", ""),
       Line("verify_hint", "") >>

Summary ==
    /\ pc = "summary"
    /\ IF failed_packages # << >>
       THEN /\ stdout' = stdout \o FailureReport
            /\ exit_code' = 1
       ELSE /\ stdout' = stdout \o SuccessReport
            /\ exit_code' = 0
    /\ pc' = "exited"
    /\ UNCHANGED <<version, idx, gate, attempts, results, failed_packages, uncaught>>

Next ==
    \/ VersionGate
    \/ RequiredStep
    \/ RequiredDone
    \/ OptionalStep
    \/ OptionalDone
    \/ Summary

Spec == Init /\ [][Next]_vars

----------------------------------------------------------------------------
\* Helpers for the properties.

Total == Len(packages) + Len(optional_packages)

\* Number of required / optional attempts made so far.
RequiredAttempted == IF Len(results) < Len(packages) THEN Len(results) ELSE Len(packages)
OptionalAttempted == Len(results) - RequiredAttempted

\* The attempt on the k-th specifier failed (the child did not exit 0).
AttemptFailed(k) == results[k].child # "exit0"

\* The required specifiers among the first n whose attempt failed, in list order.
RECURSIVE FailedRequired(_)
FailedRequired(n) ==
    IF n = 0 THEN << >>
    ELSE IF AttemptFailed(n)
         THEN Append(FailedRequired(n - 1), packages[n])
         ELSE FailedRequired(n - 1)

Printed(kind) == \E k \in 1..Len(stdout) : stdout[k].kind = kind

\* The specifiers listed by the failure report, in printed order.
RECURSIVE ItemsOf(_)
ItemsOf(lines) ==
    IF lines = << >> THEN << >>
    ELSE IF Head(lines).kind = "failed_item"
         THEN << Head(lines).text >> \o ItemsOf(Tail(lines))
         ELSE ItemsOf(Tail(lines))

GatePassed == gate = "pass"
Exited == pc = "exited"
SummaryReached == pc = "summary" \/ Printed("failed_header") \/ Printed("success_banner")

Pickle5 == "pickle5>=0.0.11; python_version<'3.8'"
Pickle5Pos == CHOOSE k \in 1..Len(packages) : packages[k] = Pickle5

\* Position of main() in the linear pipeline.
Phase ==
    CASE pc = "start"    -> 0
      [] pc = "required" -> 1
      [] pc = "optional" -> 2
      [] pc = "summary"  -> 3
      [] pc = "exited"   -> 4

----------------------------------------------------------------------------
\* C1: in a run that passed the version gate the exit code is 0 iff no
\* attempt on a required specifier failed and 1 otherwise, whatever the
\* optional attempts did.
C1_ExitCodeIffRequiredOk ==
    (Exited /\ GatePassed) =>
        /\ exit_code \in {0, 1}
        /\ (exit_code = 0) <=> (\A k \in 1..RequiredAttempted : ~AttemptFailed(k))

\* C2: check_python_version returns true iff major > 3 or (major = 3 and
\* minor >= 7); the patch number plays no part.
C2_VersionGate ==
    gate # "unknown" =>
        ((gate = "pass") <=>
            (version.major > 3 \/ (version.major = 3 /\ version.minor >= 7)))

C2_Witness ==
    /\ gate = "fail"
    /\ version = [major |-> 3, minor |-> 6, micro |-> 9]

\* C3: after a failed version gate the process has exit code 1 and
\* install_package is never invoked.
C3_GateFailStops ==
    gate = "fail" =>
        /\ Exited
        /\ exit_code = 1
        /\ attempts = << >>
        /\ ~Printed("ok") /\ ~Printed("fail")

C3_Witness ==
    /\ gate = "fail"
    /\ Exited
    /\ exit_code = 1
    /\ Printed("version_error")
    /\ version.major = 3 /\ version.minor = 6

\* C4: in a run that passed the version gate, whatever fails, install_package
\* is invoked on exactly the required list followed by the optional list.
C4_AllAttemptedInOrder ==
    (Exited /\ GatePassed) => attempts = packages \o optional_packages

\* C5: install_package always returns a boolean to its caller, true exactly
\* when the child exited 0; no failure of the child escapes it as an error.
C5_InstallReturnsBoolean ==
    /\ ~uncaught
    /\ \A k \in 1..Len(results) :
          /\ results[k].ret \in {"True", "False"}
          /\ (results[k].ret = "True") <=> (results[k].child = "exit0")

\* C6: at the summary failed_packages is exactly the required specifiers
\* whose attempt failed, in list order, and the failure report lists exactly
\* them with exit code 1; before that it is the failed part of the
\* already-attempted prefix of the required list.
C6_FailedPackagesExact ==
    /\ \A k \in 1..RequiredAttempted : attempts[k] = packages[k]
    /\ LET n == IF uncaught /\ OptionalAttempted = 0
                THEN RequiredAttempted - 1
                ELSE RequiredAttempted
       IN failed_packages = FailedRequired(n)
    /\ SummaryReached =>
          /\ RequiredAttempted = Len(packages)
          /\ failed_packages = FailedRequired(Len(packages))
    /\ (Exited /\ SummaryReached) =>
          /\ ItemsOf(stdout) = failed_packages
          /\ failed_packages # << >> => exit_code = 1

C6_Witness ==
    /\ Exited
    /\ Printed("failed_header")
    /\ \A k \in 1..Len(packages) : AttemptFailed(k) <=> packages[k] = "pandas>=1.3.0"
    /\ failed_packages = << "pandas>=1.3.0" >>
    /\ ItemsOf(stdout) = << "pandas>=1.3.0" >>
    /\ exit_code = 1

\* C7: a failed optional attempt changes nothing: failed_packages keeps the
\* value it had at the end of the required pass, the remaining optional
\* specifiers are attempted and the summary is reached.
C7_OptionalFailureSuppressed ==
    /\ pc \in {"optional", "summary"} => failed_packages = FailedRequired(Len(packages))
    /\ (Exited /\ \E k \in Len(packages) + 1..Len(results) : AttemptFailed(k)) =>
          /\ OptionalAttempted = Len(optional_packages)
          /\ SummaryReached

\* C8: a run ends either with exit code 1 straight after a failed version
\* gate, or with exit code 0 or 1 after the report, having gone through the
\* phases in order.
C8_LinearRun ==
    /\ Phase \in 0..4
    /\ Exited =>
          \/ gate = "fail" /\ exit_code = 1 /\ attempts = << >>
          \/ gate = "pass" /\ exit_code \in {0, 1} /\ SummaryReached
                /\ Len(attempts) = Total

\* C9: a run that passed the version gate ends with exactly one report: the
\* success banner and the verification hint iff failed_packages is empty
\* (exit code 0), the list of failed specifiers iff it is not (exit code 1).
C9_ExactlyOneReport ==
    (Exited /\ GatePassed) =>
        /\ Printed("success_banner") # Printed("failed_header")
        /\ Printed("success_banner") <=> (failed_packages = << >>)
        /\ Printed("success_banner") <=> Printed("verify_hint")
        /\ Printed("success_banner") <=> (exit_code = 0)
        /\ Printed("failed_header") <=> (exit_code = 1)

\* C10 as stated: the pickle5 specifier is optional, so a failure of its
\* attempt is not recorded in failed_packages and does not make the run
\* exit with status 1.
C10_Pickle5Optional ==
    \A k \in 1..Len(results) :
        (attempts[k] = Pickle5 /\ AttemptFailed(k)) =>
            /\ \E j \in 1..Len(optional_packages) : optional_packages[j] = Pickle5
            /\ \A j \in 1..Len(failed_packages) : failed_packages[j] # Pickle5
            /\ (Exited /\ \A m \in 1..Len(results) : m # k => ~AttemptFailed(m))
                  => exit_code = 0

\* C10 amended: the pickle5 specifier is a required package: it is in the
\* required list and not in the optional list, an attempt on it that returns
\* false is recorded in failed_packages, and a run in which its attempt
\* failed exits with status 1.
C10_Pickle5Required ==
    /\ \E k \in 1..Len(packages) : packages[k] = Pickle5
    /\ \A j \in 1..Len(optional_packages) : optional_packages[j] # Pickle5
    /\ \A k \in 1..Len(results) :
          (attempts[k] = Pickle5 /\ AttemptFailed(k)) =>
              /\ k = Pickle5Pos
              /\ results[k].ret = "False" =>
                    \E j \in 1..Len(failed_packages) : failed_packages[j] = Pickle5
              /\ Exited => exit_code = 1

C10_Witness ==
    /\ Exited
    /\ Len(results) = Total
    /\ \A k \in 1..Len(results) : AttemptFailed(k) <=> attempts[k] = Pickle5
    /\ failed_packages = << Pickle5 >>
    /\ exit_code = 1

====
